---- MODULE Spec2Model ----
(***************************************************************************)
(* A model of tools/sslsniff.py: the three eBPF capture handlers           *)
(* (probe_SSL_write, probe_SSL_read_enter, probe_SSL_read_exit), the       *)
(* per-CPU scratch record data_map, the correlation table bufs, the two    *)
(* perf channels and the Python consumer print_event.                      *)
(*                                                                         *)
(* A byte array is kept run-length encoded: a sequence of runs             *)
(* [b |-> byte, n |-> count], in order, with no empty run and no two       *)
(* adjacent runs of the same byte.  The encoding is exact: ByteAt gives    *)
(* the byte at every offset.                                               *)
(***************************************************************************)
EXTENDS Integers, Sequences, FiniteSets, TLC

\* ------------------------------------------------------------ constants
TASK_COMM_LEN == 16
MAX_BUF_SIZE == 1024 * 8

\* ------------------------------------------------------------ wide numbers
\* The checker's integers are 32-bit signed, a u32 is not: a number that may
\* pass 2^31 - 1 is kept as [hi, lo], standing for hi * Limb + lo with
\* 0 <= lo < Limb (hi < 0 for a negative number).
Limb == 256 * 256
Wide(n) == [hi |-> n \div Limb, lo |-> n % Limb]
\* a > n
WideGt(a, n) == a.hi > Wide(n).hi \/ (a.hi = Wide(n).hi /\ a.lo > Wide(n).lo)
\* a - n, for 0 <= n < Limb
WideSub(a, n) == [hi |-> a.hi + ((a.lo - n) \div Limb), lo |-> (a.lo - n) % Limb]
\* a \div 10 and a % 10, for a >= 0
WideDiv10(a) == [hi |-> a.hi \div 10, lo |-> ((a.hi % 10) * Limb + a.lo) \div 10]
WideMod10(a) == ((a.hi % 10) * Limb + a.lo) % 10

\* the literal 4294967295 of the two sentinel tests
SENTINEL == [hi |-> Limb - 1, lo |-> Limb - 1]

\* ------------------------------------------------------------ bounds
\* the monotonic clock is read at most MaxTime times
MaxTime == 2
\* events one perf channel holds before it drops
ChanCap == 1

\* ------------------------------------------------------------ inputs
\* command names as sequences of character codes
curl == <<99, 117, 114, 108>>
curlx == <<99, 117, 114, 108, 120>>

\* the traced tasks: bpf_get_current_pid_tgid() of each and its command name
Tasks == {1, 2}
\* (a u64 as its two 32-bit halves: hi the process id, lo the thread id)
TaskPidTgid(t) == IF t = 1 THEN [hi |-> 181, lo |-> 181]
                           ELSE [hi |-> 202, lo |-> 202]
TaskComm(t) == IF t = 1 THEN curl ELSE curlx

CPUs == {0, 1}

\* buffer pointers: 0 is NULL, 1 and 2 are mapped, 3 is not; a read passes
\* one of Ptrs
Ptrs == {0, 1, 2}
Mapped(pid, ptr) == ptr \in {1, 2}
\* the byte that fills the user buffer at ptr in the address space of pid
UserByte(pid, ptr) == IF pid = 181 THEN 64 + ptr ELSE 96 + ptr

\* the writes a task may make, <<buf, num>> (num a u32): a short and a long
\* write of a mapped buffer, a write of NULL, a write of an unmapped buffer
\* and a write of the sentinel length
Writes == {<<1, Wide(5)>>, <<1, Wide(9000)>>, <<0, Wide(5)>>, <<3, Wide(9000)>>,
           <<1, [hi |-> Limb - 1, lo |-> Limb - 1]>>}
\* the values a read may return (int)
Rets == {-1, -2, 5, 8192}

\* the workloads: the tasks that make traced calls, the CPUs they run on and
\* the calls they make.  One task on one CPU making every kind of write and
\* one kind of read; one task on one CPU making reads of two buffers, one
\* from within the other, that fail or succeed; one task on one CPU making
\* reads of every return value into a mapped or an unmapped buffer; two tasks
\* of two processes sharing two CPUs, each making one kind of write and one
\* kind of read.  depth is the number of reads a thread may have in progress
\* at once (a read entered from within a read when it is 2).
Loads ==
    { [tasks |-> {1}, cpus |-> {0}, writes |-> Writes, ptrs |-> {1},
       rets |-> {5}, depth |-> 1],
      [tasks |-> {1}, cpus |-> {0}, writes |-> {}, ptrs |-> {1, 2},
       rets |-> {-1, 5}, depth |-> 2],
      [tasks |-> {1}, cpus |-> {0}, writes |-> {}, ptrs |-> {0, 1},
       rets |-> Rets, depth |-> 1],
      [tasks |-> Tasks, cpus |-> CPUs,
       writes |-> {<<0, Wide(5)>>}, ptrs |-> {1},
       rets |-> {5}, depth |-> 1] }

\* the options: 0 / <<>> stand for an option that was not given
ArgsPid == {0, 181}
ArgsComm == {<<>>, curl}

\* ------------------------------------------------------------ byte arrays
Run(b, n) == [b |-> b, n |-> n]

RECURSIVE Norm(_)
\* the canonical encoding: no empty run, no two adjacent runs of one byte
Norm(v) ==
    IF v = <<>> THEN <<>>
    ELSE IF Head(v).n = 0 THEN Norm(Tail(v))
    ELSE LET r == Norm(Tail(v)) IN
         IF r # <<>> /\ Head(r).b = Head(v).b
         THEN <<Run(Head(v).b, Head(v).n + Head(r).n)>> \o Tail(r)
         ELSE <<Head(v)>> \o r

RECURSIVE ArrLen(_)
ArrLen(v) == IF v = <<>> THEN 0 ELSE Head(v).n + ArrLen(Tail(v))

RECURSIVE ArrTake(_, _)
\* the first k bytes of v
ArrTake(v, k) ==
    IF k <= 0 \/ v = <<>> THEN <<>>
    ELSE IF Head(v).n >= k THEN <<Run(Head(v).b, k)>>
    ELSE <<Head(v)>> \o ArrTake(Tail(v), k - Head(v).n)

RECURSIVE ArrDrop(_, _)
\* v without its first k bytes
ArrDrop(v, k) ==
    IF k <= 0 \/ v = <<>> THEN v
    ELSE IF Head(v).n > k THEN <<Run(Head(v).b, Head(v).n - k)>> \o Tail(v)
    ELSE ArrDrop(Tail(v), k - Head(v).n)

RECURSIVE ByteAt(_, _)
\* v[i], offsets from 0
ByteAt(v, i) ==
    IF i < Head(v).n THEN Head(v).b ELSE ByteAt(Tail(v), i - Head(v).n)

\* v with the n bytes from offset off on set to b (memset / a copy of a
\* buffer filled with b)
ArrFill(v, off, n, b) ==
    Norm(ArrTake(v, off) \o <<Run(b, n)>> \o ArrDrop(v, off + n))

RECURSIVE CString(_)
\* the bytes of v before its first zero byte (a char array read as a C string)
CString(v) ==
    IF v = <<>> \/ Head(v).b = 0 THEN <<>>
    ELSE <<Head(v)>> \o CString(Tail(v))

\* a Python / C string as the bytes of a char array of n bytes, zero padded
CharArray(s, n) ==
    [i \in 1..n |-> IF i <= Len(s) THEN s[i] ELSE 0]

RECURSIVE CStr(_)
\* a char array of character codes read up to its first zero
CStr(a) == IF a = <<>> \/ Head(a) = 0 THEN <<>> ELSE <<Head(a)>> \o CStr(Tail(a))

\* ------------------------------------------------------------ state
VARIABLES
    load,            \* the workload of the traced processes
    args_pid,        \* args.pid (0: not given)
    args_comm,       \* args.comm (<<>>: not given)
    data_map,        \* BPF_PERCPU_ARRAY(data_map, struct probe_SSL_data_t, 1)
    bufs,            \* BPF_HASH(bufs, u32, u64): a set of <<tid, value>> slots
    perf_SSL_write,  \* BPF_PERF_OUTPUT(perf_SSL_write): records in flight, each
                     \* [data: the record, obs: what the capture did]
    perf_SSL_read,   \* BPF_PERF_OUTPUT(perf_SSL_read): the same
    start,           \* the consumer's global start
    stdout,          \* the blocks print_event has printed
    now,             \* the monotonic clock bpf_ktime_get_ns reads
    last,            \* observation: the latest handler or callback invocation
    hist,            \* observation: timestamp_ns of each printed event
    consumer,        \* where the program is: "poll" in the loop, "exit" after exit()
    reads,           \* the traced program: per task, the buf of each read in
                     \* progress on the thread, the innermost first
    on_cpu           \* per CPU, the handler that has started on it and not
                     \* returned yet: its position and its locals

vars == <<load, args_pid, args_comm, data_map, bufs, perf_SSL_write, perf_SSL_read,
          start, stdout, now, last, hist, consumer, reads, on_cpu>>

\* struct probe_SSL_data_t, zero initialised as a BPF array element is
probe_SSL_data_t ==
    [timestamp_ns |-> 0, pid |-> 0, comm |-> CharArray(<<>>, TASK_COMM_LEN),
     v0 |-> <<Run(0, MAX_BUF_SIZE)>>, len |-> Wide(0)]

\* no handler on the CPU.  Of a handler in progress: pc, the statement it
\* stands before ("payload": the sentinel test of a read / the size, "submit":
\* perf_submit); op, task and buf (the buf of a write, *bufp of a read); ts
\* and len, the clock value and the length of the call; fault and copied,
\* what its copy did
Idle ==
    [pc |-> "idle", op |-> "none", task |-> 0, buf |-> 0, ts |-> 0,
     len |-> Wide(0), fault |-> FALSE, copied |-> 0]

\* the observation of an invocation: which handler or callback ran, for which
\* task, the pointer a read entry passed, the values bufs held for the thread
\* before, whether perf_submit was reached and what it returned
NoCall ==
    [op |-> "none", task |-> 0, buf |-> 0, prev |-> {}, submitted |-> FALSE,
     rc |-> 0]

Init ==
    /\ load \in Loads
    /\ args_pid \in ArgsPid
    /\ args_comm \in ArgsComm
    /\ data_map = [c \in CPUs |-> [k \in {0} |-> probe_SSL_data_t]]
    /\ bufs = {}
    /\ perf_SSL_write = <<>>
    /\ perf_SSL_read = <<>>
    /\ start = 0
    /\ stdout = <<>>
    /\ now = 1
    /\ last = NoCall
    /\ hist = <<>>
    /\ consumer = "poll"
    /\ reads = [t \in Tasks |-> <<>>]
    /\ on_cpu = [c \in CPUs |-> Idle]

\* ------------------------------------------------------------ helpers
\* u32 pid = pid_tgid >> 32
pid_of(pid_tgid) == pid_tgid.hi
\* u32 tid = (u32)pid_tgid
tid_of(pid_tgid) == pid_tgid.lo

FILTER_off(pid) == FALSE
\* FILTER: TRUE when the handler returns at once.  args.pid given:
\* 'if (pid != %d) { return 0; }'; not given: the empty string
FILTER(pid) == IF args_pid # 0 THEN pid # args_pid ELSE FALSE

is_sentinel_off(len) == FALSE
\* num == 4294967295 / __data->len == 4294967295
is_sentinel(len) == len = SENTINEL

size_off_by_one(len) == IF WideGt(len, MAX_BUF_SIZE) THEN MAX_BUF_SIZE ELSE len.lo
\* u32 size = ( num > MAX_BUF_SIZE - 1 ) ? (MAX_BUF_SIZE-1) : num
size(len) == IF WideGt(len, MAX_BUF_SIZE - 1) THEN MAX_BUF_SIZE - 1 ELSE len.lo

\* bpf_get_current_comm(&__data->comm, sizeof(__data->comm))
bpf_get_current_comm(task) == CharArray(TaskComm(task), TASK_COMM_LEN)

\* bpf_probe_read_user(dst, n, ptr) in the address space of pid: the copy, or
\* on a fault a negative return with the n bytes of dst zeroed
bpf_probe_read_user(dst, n, pid, ptr) ==
    IF Mapped(pid, ptr)
    THEN [rc |-> 0, dst |-> ArrFill(dst, 0, n, UserByte(pid, ptr)), copied |-> n]
    ELSE [rc |-> -14, dst |-> ArrFill(dst, 0, n, 0), copied |-> 0]

perf_submit_overwrite(chan, data) ==
    IF Len(chan) < ChanCap
    THEN [rc |-> 0, chan |-> Append(chan, data)]
    ELSE [rc |-> 0, chan |-> Append(Tail(chan), data)]
\* perf_submit(ctx, __data, sizeof(*__data)): a copy of the record is queued,
\* or dropped when the ring has no room; the handlers ignore the result
perf_submit(chan, data) ==
    IF Len(chan) < ChanCap
    THEN [rc |-> 0, chan |-> Append(chan, data)]
    ELSE [rc |-> -28, chan |-> chan]

\* bufs.lookup(&tid): the values stored under tid ({} is the null pointer)
bufs_lookup(tid) == {e[2] : e \in {x \in bufs : x[1] = tid}}
bufs_update_queue(tid, val) == bufs \cup {<<tid, val>>}
\* bufs.update(&tid, (u64*)&buf)
bufs_update(tid, val) == {x \in bufs : x[1] # tid} \cup {<<tid, val>>}
bufs_delete_off(tid) == bufs
\* bufs.delete(&tid)
bufs_delete(tid) == {x \in bufs : x[1] # tid}

\* __data->len = PT_REGS_RC(ctx): the int return value stored in a u32
to_u32(rc) == [hi |-> (rc \div Limb) % Limb, lo |-> rc % Limb]

\* what a capture did, kept beside the record it submitted: the calling task,
\* the pointer it read from, bpf_probe_read_user's failure and the bytes it
\* copied
Obs(task, buf, rd) ==
    [task |-> task, buf |-> buf, fault |-> (rd.rc # 0), copied |-> rd.copied]

\* the variables of the consumer, which a handler leaves alone
Consumer == <<load, args_pid, args_comm, start, stdout, hist, consumer>>

\* ------------------------------------------------------------ handlers
\* int probe_SSL_write(ctx, ssl, buf, num) on cpu, called by task
probe_SSL_write(cpu, task, buf, num) ==
    LET pid_tgid == TaskPidTgid(task)
        pid == pid_of(pid_tgid)
        call == [NoCall EXCEPT !.op = "write", !.task = task]
    IN  /\ UNCHANGED Consumer
        /\ UNCHANGED <<bufs, perf_SSL_read>>
        /\ IF FILTER(pid) \/ 0 \notin DOMAIN data_map[cpu]
           THEN /\ last' = call
                /\ UNCHANGED <<data_map, perf_SSL_write, now>>
           ELSE /\ now <= MaxTime
                /\ now' = now + 1
                /\ LET d1 == [data_map[cpu][0] EXCEPT !.timestamp_ns = now,
                                                      !.pid = pid,
                                                      !.len = num]
                   IN  IF is_sentinel(num)
                       THEN /\ data_map' = [data_map EXCEPT ![cpu][0] = d1]
                            /\ last' = call
                            /\ UNCHANGED perf_SSL_write
                       ELSE LET sz == size(num)
                                d2 == [d1 EXCEPT !.comm = bpf_get_current_comm(task)]
                                rd == IF buf # 0
                                      THEN bpf_probe_read_user(d2.v0, sz, pid, buf)
                                      ELSE [rc |-> 0, dst |-> d2.v0, copied |-> 0]
                                d3 == [d2 EXCEPT !.v0 = ArrFill(rd.dst, sz, 1, 0)]
                                sub == perf_submit(perf_SSL_write,
                                           [data |-> d3, obs |-> Obs(task, buf, rd)])
                            IN  /\ data_map' = [data_map EXCEPT ![cpu][0] = d3]
                                /\ perf_SSL_write' = sub.chan
                                /\ last' = [call EXCEPT !.submitted = TRUE,
                                                        !.rc = sub.rc]

\* int probe_SSL_read_enter(ctx, ssl, buf, num), called by task
probe_SSL_read_enter(task, buf) ==
    LET pid_tgid == TaskPidTgid(task)
        pid == pid_of(pid_tgid)
        tid == tid_of(pid_tgid)
        call == [NoCall EXCEPT !.op = "read_enter", !.task = task, !.buf = buf,
                               !.prev = bufs_lookup(tid)]
    IN  /\ UNCHANGED Consumer
        /\ UNCHANGED <<data_map, perf_SSL_write, perf_SSL_read, now>>
        /\ last' = call
        /\ IF FILTER(pid)
           THEN UNCHANGED bufs
           ELSE bufs' = bufs_update(tid, buf)

\* int probe_SSL_read_exit(ctx, ssl, buf, num) on cpu, as task returns rc
probe_SSL_read_exit(cpu, task, rc) ==
    LET pid_tgid == TaskPidTgid(task)
        pid == pid_of(pid_tgid)
        tid == tid_of(pid_tgid)
        bufp == bufs_lookup(tid)
        call == [NoCall EXCEPT !.op = "read_exit", !.task = task, !.prev = bufp]
    IN  /\ UNCHANGED Consumer
        /\ UNCHANGED perf_SSL_write
        /\ IF FILTER(pid) \/ bufp = {} \/ 0 \notin DOMAIN data_map[cpu]
           THEN /\ last' = call
                /\ UNCHANGED <<data_map, bufs, perf_SSL_read, now>>
           ELSE /\ now <= MaxTime
                /\ now' = now + 1
                /\ LET d1 == [data_map[cpu][0] EXCEPT !.timestamp_ns = now,
                                                      !.pid = pid,
                                                      !.len = to_u32(rc)]
                   IN  IF is_sentinel(d1.len)
                       THEN /\ data_map' = [data_map EXCEPT ![cpu][0] = d1]
                            /\ last' = call
                            /\ UNCHANGED <<bufs, perf_SSL_read>>
                       ELSE LET d2 == [d1 EXCEPT !.comm = bpf_get_current_comm(task)]
                                sz == size(d2.len)
                                ptr == CHOOSE v \in bufp : TRUE
                                rd == bpf_probe_read_user(d2.v0, sz, pid, ptr)
                                d3 == [d2 EXCEPT !.v0 = ArrFill(rd.dst, sz, 1, 0)]
                                sub == perf_submit(perf_SSL_read,
                                           [data |-> d3, obs |-> Obs(task, ptr, rd)])
                            IN  /\ data_map' = [data_map EXCEPT ![cpu][0] = d3]
                                /\ bufs' = bufs_delete(tid)
                                /\ perf_SSL_read' = sub.chan
                                /\ last' = [call EXCEPT !.submitted = TRUE,
                                                        !.rc = sub.rc]

\* ------------------------------------------------------------ consumer
\* the decimal digits of the number hi * Limb + lo (a function, so that each
\* quotient is computed once)
digits[hi \in Nat, lo \in Nat] ==
    LET n == [hi |-> hi, lo |-> lo]
        q == WideDiv10(n)
    IN  IF hi = 0 /\ lo < 10 THEN <<lo>>
        ELSE digits[q.hi, q.lo] \o <<WideMod10(n)>>
\* str(n) of a non-negative int: its decimal digits
str(n) == digits[n.hi, n.lo]

\* event.comm.decode('utf-8', 'replace') of the char[16] field
decode(comm) == CStr(comm)

comm_filter_any(comm) == args_comm # <<>>
comm_filter_prefix(comm) ==
    /\ args_comm # <<>>
    /\ ~(/\ Len(decode(comm)) >= Len(args_comm)
         /\ SubSeq(decode(comm), 1, Len(args_comm)) = args_comm)
\* 'if args.comm: if not args.comm == event.comm.decode(...): return':
\* TRUE when print_event returns before printing
comm_filter(comm) == args_comm # <<>> /\ ~(args_comm = decode(comm))

baseline_always(st, timestamp_ns) == timestamp_ns
\* 'if start == 0: start = event.timestamp_ns': the new value of start
baseline(st, timestamp_ns) == IF st = 0 THEN timestamp_ns ELSE st

truncated_bytes_off_by_one(len) == WideSub(len, MAX_BUF_SIZE - 1)
\* truncated_bytes = event.len - MAX_BUF_SIZE
truncated_bytes(len) == WideSub(len, MAX_BUF_SIZE)

\* e_mark, the digits of the lost-byte count apart from the text around them
e_mark(len) ==
    IF WideGt(truncated_bytes(len), 0)
    THEN [text |-> "----- END DATA (TRUNCATED, %s bytes lost) -----",
          lost |-> str(truncated_bytes(len))]
    ELSE [text |-> "----- END DATA -----", lost |-> <<>>]

\* the block print(fmt % (...)) writes; time_s counts units of 1e-9 s, the
\* nine decimals of %-18.9f
block(event, rw, st) ==
    [rw |-> rw,
     time_s |-> event.timestamp_ns - st,
     comm |-> decode(event.comm),
     pid |-> event.pid,
     len |-> event.len,
     s_mark |-> "----- DATA -----",
     data |-> CString(event.v0),
     e_mark |-> e_mark(event.len)]

\* def print_event(cpu, data, size, rw, evt)
print_event(event, rw) ==
    /\ last' = [NoCall EXCEPT !.op = rw]
    /\ IF comm_filter(event.comm)
       THEN UNCHANGED <<start, stdout, hist>>
       ELSE /\ start' = baseline(start, event.timestamp_ns)
            /\ stdout' = Append(stdout, block(event, rw, start'))
            /\ hist' = Append(hist, event.timestamp_ns)

in_loop_always(c) == TRUE
in_loop_never(c) == FALSE
\* 'while 1: try: b.perf_buffer_poll()': the callbacks run from within the
\* poll of the loop, so only while the program has not left it
in_loop(c) == c = "poll"

\* def print_event_write(cpu, data, size), on one record perf_buffer_poll reads
print_event_write ==
    /\ in_loop(consumer)
    /\ perf_SSL_write # <<>>
    /\ print_event(Head(perf_SSL_write).data, "WRITE/SEND")
    /\ perf_SSL_write' = Tail(perf_SSL_write)
    /\ UNCHANGED <<load, args_pid, args_comm, data_map, bufs, perf_SSL_read, now,
                   consumer, reads, on_cpu>>

\* def print_event_read(cpu, data, size), on one record perf_buffer_poll reads
print_event_read ==
    /\ in_loop(consumer)
    /\ perf_SSL_read # <<>>
    /\ print_event(Head(perf_SSL_read).data, "READ/RECV")
    /\ perf_SSL_read' = Tail(perf_SSL_read)
    /\ UNCHANGED <<load, args_pid, args_comm, data_map, bufs, perf_SSL_write, now,
                   consumer, reads, on_cpu>>

\* 'except KeyboardInterrupt: exit()': the interrupt reaches the loop and the
\* program leaves it; nothing is read from the channels on the way out
KeyboardInterrupt ==
    /\ consumer = "poll"
    /\ consumer' = "exit"
    /\ last' = [NoCall EXCEPT !.op = "KeyboardInterrupt"]
    /\ UNCHANGED <<load, args_pid, args_comm, data_map, bufs, perf_SSL_write,
                   perf_SSL_read, start, stdout, now, hist, reads, on_cpu>>

\* ------------------------------------------------------------ specification
\* the probes of attach_uprobe / attach_uretprobe, fired by the traced tasks.
\* A return probe fires for a call whose entry probe fired: the entry probe
\* of a function is attached before its return probe.
SSL_write == \E c \in load.cpus, t \in load.tasks, w \in load.writes :
                 /\ probe_SSL_write(c, t, w[1], w[2])
                 /\ UNCHANGED <<reads, on_cpu>>
SSL_read_enter == \E t \in load.tasks, p \in load.ptrs :
                      /\ Len(reads[t]) < load.depth
                      /\ probe_SSL_read_enter(t, p)
                      /\ reads' = [reads EXCEPT ![t] = <<p>> \o @]
                      /\ UNCHANGED on_cpu
SSL_read_exit == \E c \in load.cpus, t \in load.tasks, rc \in load.rets :
                     /\ reads[t] # <<>>
                     /\ probe_SSL_read_exit(c, t, rc)
                     /\ reads' = [reads EXCEPT ![t] = Tail(@)]
                     /\ UNCHANGED on_cpu

Next ==
    \/ SSL_write
    \/ SSL_read_enter
    \/ SSL_read_exit
    \/ print_event_write
    \/ print_event_read
    \/ KeyboardInterrupt

Spec == Init /\ [][Next]_vars

\* the program left to run, no interrupt: every call of perf_buffer_poll in
\* 'while 1' reads both channels, so a callback with a record to read is
\* not put off for ever
NextPoll ==
    \/ SSL_write
    \/ SSL_read_enter
    \/ SSL_read_exit
    \/ print_event_write
    \/ print_event_read

SpecPoll ==
    /\ Init
    /\ [][NextPoll]_vars
    /\ WF_vars(print_event_write)
    /\ WF_vars(print_event_read)

\* ------------------------------------------------------------ handlers in steps
\* The handlers again, a group of statements at a time, so that handlers on
\* different CPUs interleave.  A handler runs to its end on its CPU (no
\* other handler starts on a CPU that has one in progress) and a thread is
\* in one handler at a time.

percpu_shared(cpu) == 0
\* data_map.lookup(&zero) of a BPF_PERCPU_ARRAY: the element of the CPU the
\* handler runs on
percpu(cpu) == cpu

\* task is inside a handler
InHandler(task) == \E c \in CPUs : on_cpu[c].pc # "idle" /\ on_cpu[c].task = task

\* probe_SSL_write on cpu, from its entry to 'if ( num == 4294967295 )'
probe_SSL_write_head(cpu, task, buf, num) ==
    LET pid == pid_of(TaskPidTgid(task))
        call == [NoCall EXCEPT !.op = "write", !.task = task, !.buf = buf]
    IN  /\ on_cpu[cpu].pc = "idle"
        /\ ~InHandler(task)
        /\ UNCHANGED Consumer
        /\ UNCHANGED <<bufs, perf_SSL_write, perf_SSL_read, reads>>
        /\ last' = call
        /\ IF FILTER(pid) \/ 0 \notin DOMAIN data_map[percpu(cpu)]
           THEN UNCHANGED <<data_map, now, on_cpu>>
           ELSE /\ now <= MaxTime
                /\ now' = now + 1
                /\ data_map' = [data_map EXCEPT ![percpu(cpu)][0] =
                                   [@ EXCEPT !.timestamp_ns = now,
                                             !.pid = pid,
                                             !.len = num]]
                /\ on_cpu' = IF is_sentinel(num) THEN on_cpu
                             ELSE [on_cpu EXCEPT ![cpu] =
                                      [Idle EXCEPT !.pc = "payload", !.op = "write",
                                                   !.task = task, !.buf = buf,
                                                   !.ts = now, !.len = num]]

\* probe_SSL_read_exit on cpu, from its entry to '__data->len = PT_REGS_RC(ctx)'
probe_SSL_read_exit_head(cpu, task, rc) ==
    LET pid_tgid == TaskPidTgid(task)
        pid == pid_of(pid_tgid)
        tid == tid_of(pid_tgid)
        bufp == bufs_lookup(tid)
        call == [NoCall EXCEPT !.op = "read_exit", !.task = task, !.prev = bufp]
    IN  /\ on_cpu[cpu].pc = "idle"
        /\ ~InHandler(task)
        /\ UNCHANGED Consumer
        /\ UNCHANGED <<bufs, perf_SSL_write, perf_SSL_read>>
        /\ last' = call
        /\ IF FILTER(pid) \/ bufp = {} \/ 0 \notin DOMAIN data_map[percpu(cpu)]
           THEN UNCHANGED <<data_map, now, on_cpu>>
           ELSE /\ now <= MaxTime
                /\ now' = now + 1
                /\ data_map' = [data_map EXCEPT ![percpu(cpu)][0] =
                                   [@ EXCEPT !.timestamp_ns = now,
                                             !.pid = pid,
                                             !.len = to_u32(rc)]]
                /\ on_cpu' = [on_cpu EXCEPT ![cpu] =
                                 [Idle EXCEPT !.pc = "payload", !.op = "read_exit",
                                              !.task = task,
                                              !.buf = CHOOSE v \in bufp : TRUE,
                                              !.ts = now, !.len = to_u32(rc)]]

\* the handler on cpu, from the sentinel test of a read (the size of a
\* write) to bufs.delete (to the terminator): the write holds num in a
\* register, the read takes the length back from __data->len
probe_payload(cpu) ==
    LET h == on_cpu[cpu]
        pid_tgid == TaskPidTgid(h.task)
        d1 == data_map[percpu(cpu)][0]
        num == IF h.op = "write" THEN h.len ELSE d1.len
    IN  /\ h.pc = "payload"
        /\ UNCHANGED Consumer
        /\ UNCHANGED <<perf_SSL_write, perf_SSL_read, now, reads>>
        /\ last' = [NoCall EXCEPT !.op = "payload", !.task = h.task]
        /\ IF h.op = "read_exit" /\ is_sentinel(num)
           THEN /\ on_cpu' = [on_cpu EXCEPT ![cpu] = Idle]
                /\ UNCHANGED <<data_map, bufs>>
           ELSE LET sz == size(num)
                    d2 == [d1 EXCEPT !.comm = bpf_get_current_comm(h.task)]
                    rd == IF h.op = "write" /\ h.buf = 0
                          THEN [rc |-> 0, dst |-> d2.v0, copied |-> 0]
                          ELSE bpf_probe_read_user(d2.v0, sz, pid_of(pid_tgid), h.buf)
                    d3 == [d2 EXCEPT !.v0 = ArrFill(rd.dst, sz, 1, 0)]
                IN  /\ data_map' = [data_map EXCEPT ![percpu(cpu)][0] = d3]
                    /\ bufs' = IF h.op = "read_exit"
                               THEN bufs_delete(tid_of(pid_tgid)) ELSE bufs
                    /\ on_cpu' = [on_cpu EXCEPT ![cpu] =
                                     [h EXCEPT !.pc = "submit",
                                               !.fault = (rd.rc # 0),
                                               !.copied = rd.copied]]

\* the handler on cpu at perf_submit(ctx, __data, sizeof(*__data)) and its return
probe_submit(cpu) ==
    LET h == on_cpu[cpu]
        item == [data |-> data_map[percpu(cpu)][0],
                 obs |-> [task |-> h.task, buf |-> h.buf, fault |-> h.fault,
                          copied |-> h.copied, ts |-> h.ts, len |-> h.len]]
        sub == perf_submit(IF h.op = "write" THEN perf_SSL_write ELSE perf_SSL_read,
                           item)
    IN  /\ h.pc = "submit"
        /\ UNCHANGED Consumer
        /\ UNCHANGED <<data_map, bufs, now, reads>>
        /\ IF h.op = "write"
           THEN perf_SSL_write' = sub.chan /\ UNCHANGED perf_SSL_read
           ELSE perf_SSL_read' = sub.chan /\ UNCHANGED perf_SSL_write
        /\ on_cpu' = [on_cpu EXCEPT ![cpu] = Idle]
        /\ last' = [NoCall EXCEPT !.op = h.op, !.task = h.task,
                                  !.submitted = TRUE, !.rc = sub.rc]

SSL_write_head == \E c \in load.cpus, t \in load.tasks, w \in load.writes :
                      probe_SSL_write_head(c, t, w[1], w[2])
SSL_read_enter_call == \E t \in load.tasks, p \in load.ptrs :
                           /\ ~InHandler(t)
                           /\ Len(reads[t]) < load.depth
                           /\ probe_SSL_read_enter(t, p)
                           /\ reads' = [reads EXCEPT ![t] = <<p>> \o @]
                           /\ UNCHANGED on_cpu
SSL_read_exit_head == \E c \in load.cpus, t \in load.tasks, rc \in load.rets :
                          /\ reads[t] # <<>>
                          /\ probe_SSL_read_exit_head(c, t, rc)
                          /\ reads' = [reads EXCEPT ![t] = Tail(@)]
SSL_payload == \E c \in load.cpus : probe_payload(c)
SSL_submit == \E c \in load.cpus : probe_submit(c)

NextSteps ==
    \/ SSL_write_head
    \/ SSL_read_enter_call
    \/ SSL_read_exit_head
    \/ SSL_payload
    \/ SSL_submit
    \/ print_event_write
    \/ print_event_read
    \/ KeyboardInterrupt

SpecSteps == Init /\ [][NextSteps]_vars

\* ------------------------------------------------------------ properties
\* the records in flight on the two channels
InFlight ==
    {perf_SSL_write[i] : i \in DOMAIN perf_SSL_write}
        \cup {perf_SSL_read[i] : i \in DOMAIN perf_SSL_read}

\* min(length, capacity - 1) with capacity = 8192
CapLen(len) == IF len.hi > 0 \/ len.lo > 8191 THEN 8191 ELSE len.lo

\* the caller's buffer can be read: the pointer is not null and is mapped
Readable(e) == e.obs.buf # 0 /\ Mapped(e.data.pid, e.obs.buf)

\* the process id and thread id of a task
PidOfTask(t) == TaskPidTgid(t).hi
TidOfTask(t) == TaskPidTgid(t).lo

\* the entries the correlation table b holds for thread id tid
Entries(b, tid) == {x \in b : x[1] = tid}

Handlers == {"write", "read_enter", "read_exit"}
Callbacks == {"WRITE/SEND", "READ/RECV"}

\* C1 as stated: every emitted event has min(length, capacity - 1) bytes
\* copied from the caller's buffer and a zero byte at that offset, also when
\* the buffer pointer is null.
C1_CopiedAlways ==
    \A e \in InFlight :
        /\ e.obs.copied = CapLen(e.data.len)
        /\ ByteAt(e.data.v0, CapLen(e.data.len)) = 0

\* C1 amended: every emitted event has a zero byte at offset
\* min(length, capacity - 1); when the caller's buffer is readable that many
\* bytes are copied from it and are the payload before the zero; when the
\* pointer is null or unreadable no byte is copied from it.
C1_Terminated ==
    \A e \in InFlight :
        LET m == CapLen(e.data.len) IN
        /\ ByteAt(e.data.v0, m) = 0
        /\ ArrLen(e.data.v0) = MAX_BUF_SIZE
        /\ IF Readable(e)
           THEN /\ e.obs.copied = m
                /\ ArrTake(e.data.v0, m)
                       = Norm(<<Run(UserByte(e.data.pid, e.obs.buf), m)>>)
           ELSE e.obs.copied = 0

\* a write of 9000 bytes of a readable buffer is in flight with 8191 bytes
\* copied and a zero byte after them
C1_Witness ==
    \E e \in InFlight :
        /\ Readable(e)
        /\ e.data.len = Wide(9000)
        /\ e.obs.copied = 8191
        /\ ByteAt(e.data.v0, 8191) = 0

\* C2: a write whose length is 0xFFFFFFFF and a read that returns 0xFFFFFFFF
\* (as u32) emit no event: a step that stages the sentinel length in a
\* scratch record leaves both channels as they were, and no record in flight
\* carries the sentinel length.
C2_SentinelSilent ==
    [][/\ \A e \in InFlight' : e.data.len # [hi |-> 65535, lo |-> 65535]
       /\ (\E c \in CPUs :
               /\ data_map'[c] # data_map[c]
               /\ data_map'[c][0].len = [hi |-> 65535, lo |-> 65535])
          => UNCHANGED <<perf_SSL_write, perf_SSL_read>>]_vars

\* a read exit has just staged the sentinel length
C2_Witness ==
    /\ last.op = "read_exit"
    /\ \E c \in CPUs :
           /\ data_map[c][0].len = [hi |-> 65535, lo |-> 65535]
           /\ data_map[c][0].timestamp_ns = now - 1

\* C3: the correlation table holds at most one entry per thread id, and a
\* read entry of a thread that passes the process filter leaves exactly the
\* new pointer stored for the thread, whatever was stored before.
C3_OneEntry ==
    [][/\ \A t \in Tasks : Cardinality(Entries(bufs', TidOfTask(t))) <= 1
       /\ (/\ last'.op = "read_enter"
           /\ (args_pid = 0 \/ PidOfTask(last'.task) = args_pid))
          => Entries(bufs', TidOfTask(last'.task))
                 = {<<TidOfTask(last'.task), last'.buf>>}]_vars

\* a read entry found another pointer stored for its thread and replaced it
C3_Witness ==
    /\ last.op = "read_enter"
    /\ last.prev # {}
    /\ last.buf \notin last.prev
    /\ Entries(bufs, TidOfTask(last.task)) = {<<TidOfTask(last.task), last.buf>>}

\* C4 as stated: after a read exit of a thread that had a pending entry, the
\* thread has no entry, on every path through the handler.
C4_ExitRemoves ==
    (last.op = "read_exit" /\ last.prev # {})
        => Entries(bufs, TidOfTask(last.task)) = {}

\* C5 as stated: a capture whose copy from the caller's buffer faulted emits
\* no event.
C5_FaultAborts == \A e \in InFlight : ~e.obs.fault

RECURSIVE WideOfDigits(_)
\* the number decimal digits d write, as a wide number
WideOfDigits(d) ==
    IF d = <<>> THEN [hi |-> 0, lo |-> 0]
    ELSE LET w == WideOfDigits(SubSeq(d, 1, Len(d) - 1))
             t == w.lo * 10 + d[Len(d)]
         IN  [hi |-> w.hi * 10 + t \div 65536, lo |-> t % 65536]

\* a + 8192 for a wide number a
Plus8192(a) == [hi |-> a.hi + (a.lo + 8192) \div 65536,
                lo |-> (a.lo + 8192) % 65536]

\* C6: with capacity 8192, a rendered event of length > capacity ends with
\* the truncated marker and a lost-byte count that reads length - capacity
\* (808 for length 9000); one of length <= capacity ends with the plain
\* marker and shows no count.
C6_Truncation ==
    \A i \in DOMAIN stdout :
        LET b == stdout[i] IN
        IF b.len.hi > 0 \/ b.len.lo > 8192
        THEN /\ b.e_mark.text = "----- END DATA (TRUNCATED, %s bytes lost) -----"
             /\ b.e_mark.lost # <<>>
             /\ \A k \in DOMAIN b.e_mark.lost : b.e_mark.lost[k] \in 0..9
             /\ Plus8192(WideOfDigits(b.e_mark.lost)) = b.len
             /\ (b.len = [hi |-> 0, lo |-> 9000] => b.e_mark.lost = <<8, 0, 8>>)
        ELSE b.e_mark = [text |-> "----- END DATA -----", lost |-> <<>>]

\* a write of 9000 bytes was rendered with 808 bytes lost
C6_Witness ==
    \E i \in DOMAIN stdout :
        /\ stdout[i].rw = "WRITE/SEND"
        /\ stdout[i].len = [hi |-> 0, lo |-> 9000]
        /\ stdout[i].e_mark.lost = <<8, 0, 8>>

\* the record a callback step takes off its channel
Consumed == IF last'.op = "WRITE/SEND" THEN Head(perf_SSL_write).data
                                       ELSE Head(perf_SSL_read).data

\* C7: with a command filter, an event whose command is not the filter is
\* not rendered and does not set the baseline, and the baseline is unset or
\* the timestamp of a rendered event whose command is the filter.
C7_CommFilter ==
    [][args_comm # <<>> =>
         /\ (/\ last'.op \in Callbacks
             /\ Consumed.comm # CharArray(args_comm, 16))
            => (stdout' = stdout /\ start' = start)
         /\ \A i \in DOMAIN stdout' : stdout'[i].comm = args_comm
         /\ start' # 0 =>
                \E i \in DOMAIN stdout' :
                    hist'[i] = start' /\ stdout'[i].comm = args_comm]_vars

\* with the filter "curl", an event of another command was taken off the
\* write channel and nothing has been rendered
C7_Witness ==
    /\ args_comm = curl
    /\ last.op = "WRITE/SEND"
    /\ stdout = <<>>
    /\ start = 0

\* C8: the baseline is unset until an event passes the command filter, is
\* then the timestamp of the first such event for good, and every rendered
\* event shows its timestamp minus that of the first.
C8_Baseline ==
    /\ Len(hist) = Len(stdout)
    /\ (hist = <<>>) <=> (start = 0)
    /\ hist # <<>> => start = hist[1]
    /\ \A i \in DOMAIN stdout : stdout[i].time_s = hist[i] - hist[1]

\* two events with different timestamps were rendered
C8_Witness ==
    /\ Len(stdout) = 2
    /\ hist[2] # hist[1]
    /\ stdout[2].time_s # 0

\* C9: with a process filter, a traced call of another process changes
\* neither channel, the correlation table nor a scratch record, and every
\* record in flight carries the process id of the filter.
C9_PidFilter ==
    [][args_pid # 0 =>
         /\ (last'.op \in Handlers /\ PidOfTask(last'.task) # args_pid)
            => UNCHANGED <<perf_SSL_write, perf_SSL_read, bufs, data_map>>
         /\ \A e \in InFlight' : e.data.pid = args_pid
         /\ \A x \in bufs' :
                \E t \in Tasks : TidOfTask(t) = x[1] /\ PidOfTask(t) = args_pid]_vars

\* with the filter 181, a read exit of process 202 ran while the table held
\* an entry
C9_Witness ==
    /\ args_pid = 181
    /\ last.op = "read_exit"
    /\ PidOfTask(last.task) = 202
    /\ bufs # {}

\* the channel a handler step submits to
Target == IF last'.op = "write" THEN perf_SSL_write ELSE perf_SSL_read

\* C10: a handler that reaches perf_submit while its channel is full runs
\* to its end in that one step, without a step of the consumer: the event is
\* dropped, perf_submit reports it, and both channels keep their contents.
C10_NoBackpressure ==
    [][(last'.submitted /\ Len(Target) = ChanCap)
          => /\ UNCHANGED <<perf_SSL_write, perf_SSL_read>>
             /\ last'.rc # 0
             /\ UNCHANGED <<start, stdout>>]_vars

\* a handler submitted to a full channel and the event was dropped
C10_Witness ==
    /\ last.op \in {"write", "read_exit"}
    /\ last.submitted
    /\ last.rc # 0
    /\ (Len(perf_SSL_write) = ChanCap \/ Len(perf_SSL_read) = ChanCap)

\* C11: once the interrupt has reached the consumer loop the program has left
\* it for good: no event is rendered from then on and the baseline stays,
\* whatever the channels hold or the handlers still add to them.
C11_InterruptStops ==
    [][consumer = "exit" =>
          /\ consumer' = "exit"
          /\ UNCHANGED <<start, stdout, hist>>]_vars
\* the loop was left with a record still in a channel
C11_Witness == consumer = "exit" /\ InFlight # {} /\ last.op = "KeyboardInterrupt"

\* the step is a Read Exit of task t that read the clock and found a return
\* value other than the sentinel
ExitReturns(t) ==
    /\ last'.op = "read_exit" /\ last'.task = t
    /\ now' # now
    /\ \E c \in CPUs : /\ data_map'[c] # data_map[c]
                       /\ data_map'[c][0].len # SENTINEL

\* C12: Entry(p1), Entry(p2), Exit, Exit on one thread, the returns not the
\* sentinel: the first Exit finds p2, emits one read event whose payload was
\* copied from p2 and removes the entry; the second Exit finds no entry and
\* emits nothing, so that p1 is never used.
C12_EntryOverwrite ==
    [][\A t \in Tasks :
          /\ (Len(reads[t]) = 2 /\ ~FILTER(PidOfTask(t)) /\ ExitReturns(t))
                => /\ last'.prev = {reads[t][1]}
                   /\ last'.submitted
                   /\ Entries(bufs', TidOfTask(t)) = {}
                   /\ perf_SSL_write' = perf_SSL_write
                   /\ IF last'.rc = 0
                      THEN /\ Len(perf_SSL_read') = Len(perf_SSL_read) + 1
                           /\ LET e == perf_SSL_read'[Len(perf_SSL_read')]
                              IN  /\ e.obs.task = t
                                  /\ e.obs.buf = reads[t][1]
                                  /\ e.obs.copied = CapLen(e.data.len)
                                  /\ ArrTake(e.data.v0, e.obs.copied)
                                         = Norm(<<Run(UserByte(PidOfTask(t), reads[t][1]),
                                                      e.obs.copied)>>)
                      ELSE perf_SSL_read' = perf_SSL_read
          /\ (/\ Len(reads[t]) = 1 /\ load.depth = 2
              /\ last.op = "read_exit" /\ last.task = t /\ last.submitted
              /\ last'.op = "read_exit" /\ last'.task = t)
                => /\ last'.prev = {}
                   /\ ~last'.submitted
                   /\ UNCHANGED <<perf_SSL_write, perf_SSL_read, data_map, bufs,
                                  now>>]_vars
\* Entry(1), Entry(2) and the first Exit have happened: the read of buffer 1
\* is still in progress, the table holds nothing for the thread and the
\* event of buffer 2 is in the channel
C12_Witness ==
    /\ reads[1] = <<1>>
    /\ last.op = "read_exit" /\ last.task = 1 /\ last.prev = {2}
    /\ last.submitted /\ last.rc = 0
    /\ Entries(bufs, TidOfTask(1)) = {}
    /\ \E i \in DOMAIN perf_SSL_read :
           /\ perf_SSL_read[i].obs.buf = 2
           /\ ByteAt(perf_SSL_read[i].data.v0, 0) = UserByte(181, 2)

\* C13: with the handlers interleaving on distinct CPUs, each on the scratch
\* element of its CPU and run to its end there, every emitted event carries
\* the timestamp, the process id, the command name and the length of the one
\* call that emitted it.
C13_OneCall ==
    \A e \in InFlight :
        /\ e.data.timestamp_ns = e.obs.ts
        /\ e.data.pid = PidOfTask(e.obs.task)
        /\ e.data.comm = CharArray(TaskComm(e.obs.task), TASK_COMM_LEN)
        /\ e.data.len = e.obs.len
\* an event was emitted by a handler that started and ended while a handler
\* of another task, started before it on another CPU, was still in progress
C13_Witness ==
    \E e \in InFlight, c \in CPUs :
        /\ on_cpu[c].pc # "idle"
        /\ on_cpu[c].task # e.obs.task
        /\ on_cpu[c].ts < e.obs.ts

\* the accepted record of the call that read clock value ts is in a channel
Buffered(ts) == \E e \in InFlight : e.data.timestamp_ns = ts

\* how many rendered blocks are of the event with timestamp ts
Rendered(ts) == Cardinality({i \in DOMAIN hist : hist[i] = ts})

\* C14: with the loop polling for ever (no interrupt, each callback served
\* when it has a record), every accepted record leaves its channel; the step
\* that takes it out renders it if its command passes the filter and does
\* not otherwise; no record is rendered while it is in a channel or more
\* than once.  This holds for the records of both channels, so neither
\* keeps the other waiting for ever.
C14_EventuallyRendered ==
    /\ [](\A ts \in 1..(MaxTime + 1) :
             /\ Rendered(ts) <= 1
             /\ Buffered(ts) => Rendered(ts) = 0)
    /\ [][\A e \in InFlight :
              e \notin InFlight'
                  => Rendered(e.data.timestamp_ns)'
                         = IF args_comm = <<>> \/ args_comm = decode(e.data.comm)
                           THEN 1 ELSE 0]_vars
    /\ \A ts \in 1..(MaxTime + 1) : Buffered(ts) ~> ~Buffered(ts)
\* a write event and a read event were both accepted, dequeued and rendered
C14_Witness ==
    /\ InFlight = {}
    /\ \E i, j \in DOMAIN stdout :
           /\ stdout[i].rw = "WRITE/SEND" /\ stdout[j].rw = "READ/RECV"
           /\ Rendered(hist[i]) = 1 /\ Rendered(hist[j]) = 1

\* C15 as stated: the pointer a Read Exit copies from is the one passed to
\* the Read Entry of the call that is returning (the innermost read in
\* progress on the thread), whatever reads were entered and returned before,
\* a read entered from within a read and returning the sentinel included.
C15_SameCall ==
    [][\A t \in Tasks :
          (last'.op = "read_exit" /\ last'.task = t /\ last'.submitted)
              => last'.prev = {reads[t][1]}]_vars

\* C16 as stated: the payload of an emitted event, the bytes of v0 before
\* its first zero, holds only bytes of the buffer of the call that emitted
\* it: none at all when its pointer is null or its copy faulted, and never a
\* byte an earlier capture left in the scratch element.
C16_NoStaleBytes ==
    \A e \in InFlight :
        LET payload == CString(e.data.v0)
        IN  \A i \in DOMAIN payload :
                /\ Readable(e)
                /\ payload[i].b = UserByte(e.data.pid, e.obs.buf)

\* the record the callback of this step takes off its channel
Taken == IF last'.op = "WRITE/SEND" THEN Head(perf_SSL_write)
                                    ELSE Head(perf_SSL_read)

\* C17 as stated, for the events whose copy went through (min(length,
\* capacity - 1) bytes captured): a rendered event without the truncated
\* marker has all its length bytes captured, and the lost-byte count of one
\* with the marker is its length minus the bytes captured.
C17_LostCount ==
    [][(last'.op \in Callbacks /\ Len(stdout') > Len(stdout)
            /\ Taken.obs.copied = CapLen(Taken.data.len))
          => LET b == stdout'[Len(stdout')]
             IN  IF b.e_mark.lost = <<>>
                 THEN b.len = Wide(Taken.obs.copied)
                 ELSE WideOfDigits(b.e_mark.lost)
                          = WideSub(b.len, Taken.obs.copied)]_vars

\* C18 as stated: the relative time of every rendered event is not
\* negative, in whatever order the handlers ran and the consumer took the
\* records off the two channels.
C18_TimeNotNegative == \A i \in DOMAIN stdout : stdout[i].time_s >= 0

\* C19 as stated: a Read Exit emits a read event only for a return value
\* that is not negative: the length of every read event in the channel, as
\* a signed 32-bit number, is within 0 .. 2^31 - 1.
C19_ReadLenNotNegative ==
    \A i \in DOMAIN perf_SSL_read : perf_SSL_read[i].data.len.hi < Limb \div 2

====
